---- MODULE Spec2Model ----
(***************************************************************************)
(* A model of deploy_library.py: the one-shot deployment pipeline (main)   *)
(* and the component operations it calls.  Strings that the code inspects  *)
(* character by character (the repository reference) are sequences of      *)
(* one-character strings; file-system paths are sequences of path          *)
(* components; an optional string (Python's None against a str) is a       *)
(* record [some, val].                                                     *)
(***************************************************************************)
EXTENDS Naturals, Sequences, FiniteSets, TLC

VARIABLES
    environ,                  \* os.environ: [url, branch], each an optional string
    pc,                       \* position of main (or of the cleanup driver)
    repo_url_str,             \* main's local, optional string
    paths_to_clean,           \* main's local, sequence of paths
    fs,                       \* the set of paths that exist on disk
    locked,                   \* the paths whose removal the OS refuses
    extract_listing,          \* iteration order of the extracted directory
    root_listing,             \* iteration order of the library root
    scan_ok,                  \* whether the last directory scan completed without an OSError
    zip_url,                  \* the URL handed to requests.get, optional string
    zip_file_path,            \* main's local, a path or NoPath
    library_root_path,        \* main's local, a path or NoPath
    library_name_for_import,  \* main's local, a name or NoName
    log,                      \* the records written through logging, oldest first
    trace,                    \* the operations main has called, with their results
    escaped,                  \* the operations whose exception reached main's handler
    rmtree_calls              \* the arguments of the shutil.rmtree calls, oldest first

vars == <<environ, pc, repo_url_str, paths_to_clean, fs, locked, extract_listing,
          root_listing, scan_ok, zip_url, zip_file_path, library_root_path,
          library_name_for_import, log, trace, escaped, rmtree_calls>>

(***************************************************************************)
(* Bounds of the model.                                                    *)
(***************************************************************************)
MaxEntries == 3    \* entries of a listed directory
MaxPaths == 2      \* length of the list handed to cleanup by the cleanup driver

(***************************************************************************)
(* Values.                                                                 *)
(***************************************************************************)
NoneV == [some |-> FALSE, val |-> <<>>]
Some(s) == [some |-> TRUE, val |-> s]
\* Python truthiness of an optional string: None and "" are false.
Truthy(o) == o.some /\ o.val # <<>>

NoPath == <<>>
NoName == "None"

DEFAULT_BRANCH == <<"m", "a", "i", "n">>
DotZip == <<".", "z", "i", "p">>
ArchivePrefix == <<"/", "a", "r", "c", "h", "i", "v", "e", "/", "r", "e", "f", "s",
                   "/", "h", "e", "a", "d", "s", "/">>

\* The work area of main.
temp_base_dir == <<"codex_lib_deploy_">>
temp_download_dir == temp_base_dir \o <<"download">>
temp_extract_dir == temp_base_dir \o <<"extracted">>
venv_dir_path == temp_base_dir \o <<"venv">>

(***************************************************************************)
(* String and path helpers (str.strip, str.rstrip, str.endswith, Path).    *)
(***************************************************************************)
RECURSIVE lstrip(_)
lstrip(s) == IF s # <<>> /\ Head(s) = " " THEN lstrip(Tail(s)) ELSE s

RECURSIVE rstrip(_, _)
rstrip(s, ch) ==
    IF s # <<>> /\ s[Len(s)] = ch THEN rstrip(SubSeq(s, 1, Len(s) - 1), ch) ELSE s

strip(s) == rstrip(lstrip(s), " ")

endswith(s, suffix) ==
    /\ Len(s) >= Len(suffix)
    /\ SubSeq(s, Len(s) - Len(suffix) + 1, Len(s)) = suffix

\* Path.name: the final component.
PathName(p) == p[Len(p)]

\* p is q or an ancestor of q.
IsPrefix(p, q) == Len(p) <= Len(q) /\ SubSeq(q, 1, Len(p)) = p

RECURSIVE SeqsUpTo(_, _)
SeqsUpTo(S, n) ==
    IF n = 0 THEN {<<>>}
    ELSE LET shorter == SeqsUpTo(S, n - 1)
         IN shorter \cup {Append(s, x) : s \in shorter, x \in S}

(***************************************************************************)
(* The inputs: the configured reference, the branch override and the       *)
(* contents of the directories the pipeline lists.                         *)
(***************************************************************************)
\* The values of the reference variable: blank ones, padded ones, ones with
\* trailing slashes and ones that name an archive.
UrlValues ==
    {<<>>, <<" ">>, <<" ", " ">>,
     <<"r">>, <<" ", "r", "/", " ">>, <<"r", "/", "/">>, <<"r">> \o DotZip,
     <<"r">> \o DotZip \o <<"/">>}

BranchValues == {NoneV, Some(<<"d", "e", "v">>)}

\* The code never compares entry names with each other, so the i-th entry in
\* iteration order is given the i-th name; entries of the extracted
\* directory and of the library root are named apart.
TopNames == <<"a", "b", "c", "d", "e">>
ChildNames == <<"p", "q", "r", "s", "t">>

\* A listing of the extracted directory: each entry is a directory or a plain file.
ExtractListings ==
    UNION {{[i \in 1..n |-> [name |-> TopNames[i], is_dir |-> kind[i]]] :
                kind \in [1..n -> BOOLEAN]} : n \in 0..MaxEntries}

\* A listing of the library root: marker says whether <entry>/__init__.py is a file.
RootListings ==
    UNION {{[i \in 1..n |-> [name |-> ChildNames[i], marker |-> m[i]]] :
                m \in [1..n -> BOOLEAN]} : n \in 0..MaxEntries}

(***************************************************************************)
(* The component operations.  Each takes the outcome of the external call  *)
(* it wraps and returns what the Python function returns, the records it   *)
(* logs and whether an exception leaves it.                                *)
(***************************************************************************)
get_repo_url_from_env(env) ==
    IF ~Truthy(env.url)
    THEN [ret |-> NoneV, log |-> <<"ERROR env var not set">>]
    ELSE [ret |-> Some(strip(env.url.val)), log |-> <<>>]

\* The archive URL computed at the top of download_repo_zip.
archive_url(repo_url) ==
    IF endswith(repo_url, DotZip) THEN repo_url
    ELSE rstrip(repo_url, "/") \o ArchivePrefix \o DEFAULT_BRANCH \o DotZip

download_repo_zip(repo_url, temp_dir_path, outcome) ==
    LET zip_file == temp_dir_path \o <<"repo.zip">>
    IN [url |-> Some(archive_url(repo_url)),
        ret |-> IF outcome = "ok" THEN zip_file ELSE NoPath,
        created |-> IF outcome \in {"ok", "write_error"} THEN {zip_file} ELSE {},
        log |-> IF outcome = "ok" THEN <<"INFO archive downloaded">>
                ELSE <<"ERROR download failed">>,
        raised |-> FALSE]

extract_repo_zip(zip_path, extract_to_dir_path, outcome) ==
    [ret |-> IF outcome = "ok" THEN extract_to_dir_path ELSE NoPath,
     log |-> IF outcome = "ok" THEN <<"INFO archive extracted">>
             ELSE <<"ERROR extract failed">>,
     raised |-> FALSE]

\* Variant: any non-empty set of subdirectories is accepted, the first one wins.
find_library_root_first(extract_to_dir_path, listing, ok) ==
    LET dirs == SelectSeq(listing, LAMBDA p : p.is_dir)
    IN IF ~ok THEN [ret |-> NoPath, log |-> <<"ERROR root search error">>, raised |-> FALSE]
       ELSE IF Len(dirs) = 0
       THEN [ret |-> NoPath, log |-> <<"ERROR root not determined">>, raised |-> FALSE]
       ELSE [ret |-> extract_to_dir_path \o <<dirs[1].name>>,
             log |-> <<"INFO root found">>, raised |-> FALSE]

find_library_root(extract_to_dir_path, listing, ok) ==
    LET dirs == SelectSeq(listing, LAMBDA p : p.is_dir)
    IN IF ~ok THEN [ret |-> NoPath, log |-> <<"ERROR root search error">>, raised |-> FALSE]
       ELSE IF Len(dirs) # 1
       THEN [ret |-> NoPath, log |-> <<"ERROR root not determined">>, raised |-> FALSE]
       ELSE [ret |-> extract_to_dir_path \o <<dirs[1].name>>,
             log |-> <<"INFO root found">>, raised |-> FALSE]

\* Variant: the last candidate is taken instead of the first.
guess_package_name_last(library_root, listing, ok) ==
    LET candidates == SelectSeq(listing, LAMBDA p : p.marker)
    IN IF ok /\ candidates # <<>>
       THEN [ret |-> candidates[Len(candidates)].name, log |-> <<>>, raised |-> FALSE]
       ELSE [ret |-> PathName(library_root),
             log |-> IF ok THEN <<>> ELSE <<"ERROR package name error">>,
             raised |-> FALSE]

guess_package_name(library_root, listing, ok) ==
    LET candidates == SelectSeq(listing, LAMBDA p : p.marker)
    IN IF ok /\ candidates # <<>>
       THEN [ret |-> candidates[1].name, log |-> <<>>, raised |-> FALSE]
       ELSE [ret |-> PathName(library_root),
             log |-> IF ok THEN <<>> ELSE <<"ERROR package name error">>,
             raised |-> FALSE]

create_virtual_env(venv_path, outcome) ==
    [ret |-> outcome = "ok",
     created |-> IF outcome = "raises" THEN {} ELSE {venv_path},
     log |-> CASE outcome = "ok" -> <<"INFO venv created">>
               [] outcome = "nonzero" -> <<"ERROR venv not created">>
               [] OTHER -> <<"ERROR venv error">>,
     raised |-> FALSE]

install_library_in_venv(venv_path, library_source_path, outcome) ==
    [ret |-> outcome = "ok",
     log |-> CASE outcome = "ok" -> <<"INFO library installed">>
               [] outcome = "nonzero" -> <<"ERROR install error">>
               [] OTHER -> <<"ERROR install failed">>,
     raised |-> FALSE]

\* outcome: what write_text and subprocess.run do; unlink_ok: whether the
\* unlink in the finally clause succeeds when the script exists.
run_demonstration(venv_path, library_name, outcome, unlink_ok) ==
    LET script == venv_path \o <<"demo_script.py">>
        written == outcome # "write_error"
    IN [log |-> CASE outcome = "ok" -> <<"INFO demo output">>
                  [] outcome = "stderr" -> <<"INFO demo output", "WARNING demo stderr">>
                  [] OTHER -> <<"ERROR demo error">>,
        left |-> IF written /\ ~unlink_ok THEN {script} ELSE {},
        raised |-> written /\ ~unlink_ok]

\* Variant: os.rmdir in place of shutil.rmtree, which removes a directory
\* only when nothing is below it.
rmtree_rmdir(files, lk, path) ==
    IF path \in lk \/ \E q \in files : q # path /\ IsPrefix(path, q)
    THEN files
    ELSE files \ {path}

\* shutil.rmtree(path, ignore_errors=True): removes every entry under path
\* that it can; an entry stays when its removal is refused or when an entry
\* below it stays.  Nothing is raised.
rmtree(files, lk, path) ==
    {q \in files : IsPrefix(path, q) => \E l \in lk \cap files : IsPrefix(q, l)}

\* Variant: one try around the whole loop and no ignore_errors, so the
\* first path that is missing or cannot be removed ends the loop.
RECURSIVE cleanup_abort(_, _, _)
cleanup_abort(paths_to_remove, files, lk) ==
    IF paths_to_remove = <<>>
    THEN [fs |-> files, calls |-> <<>>, log |-> <<>>, raised |-> FALSE]
    ELSE LET path == Head(paths_to_remove)
             after == {q \in files :
                         IsPrefix(path, q) => \E l \in lk \cap files : IsPrefix(q, l)}
             failed == path \notin files \/ path \in after
             rest == IF failed
                     THEN [fs |-> after, calls |-> <<>>,
                           log |-> <<"ERROR removal failed">>, raised |-> FALSE]
                     ELSE cleanup_abort(Tail(paths_to_remove), after, lk)
         IN [fs |-> rest.fs,
             calls |-> <<path>> \o rest.calls,
             log |-> (IF failed THEN <<>> ELSE <<"INFO directory removed">>) \o rest.log,
             raised |-> rest.raised]

RECURSIVE cleanup(_, _, _)
cleanup(paths_to_remove, files, lk) ==
    IF paths_to_remove = <<>>
    THEN [fs |-> files, calls |-> <<>>, log |-> <<>>, raised |-> FALSE]
    ELSE LET path == Head(paths_to_remove)
             rest == cleanup(Tail(paths_to_remove), rmtree(files, lk, path), lk)
         IN [fs |-> rest.fs,
             calls |-> <<path>> \o rest.calls,
             log |-> <<"INFO directory removed">> \o rest.log,
             raised |-> rest.raised]

(***************************************************************************)
(* main.  One action per statement of the try block that calls out, and    *)
(* one for the finally clause.  Call(op, r, ok, next) is what main does    *)
(* with the result r of a call: an exception is caught by the catch-all    *)
(* (logged as critical), a false result returns early, and both lead to    *)
(* the finally clause.                                                     *)
(***************************************************************************)
Init ==
    /\ environ \in [url : {NoneV} \cup {Some(u) : u \in UrlValues}, branch : BranchValues]
    /\ pc = "get_url"
    /\ repo_url_str = NoneV
    /\ paths_to_clean = <<>>
    /\ fs = {}
    /\ locked = {}
    /\ extract_listing = <<>>
    /\ root_listing = <<>>
    /\ scan_ok = TRUE
    /\ zip_url = NoneV
    /\ zip_file_path = NoPath
    /\ library_root_path = NoPath
    /\ library_name_for_import = NoName
    /\ log = <<>>
    /\ trace = <<>>
    /\ escaped = {}
    /\ rmtree_calls = <<>>

\* Variant: main does not look at the result of the call.
CallUnchecked(op, r, ok, next) ==
    /\ log' = log \o r.log \o (IF r.raised THEN <<"ERROR critical error">> ELSE <<>>)
    /\ escaped' = IF r.raised THEN escaped \cup {op} ELSE escaped
    /\ trace' = Append(trace, [op |-> op, ok |-> ok /\ ~r.raised])
    /\ pc' = IF r.raised THEN "finally" ELSE next

Call(op, r, ok, next) ==
    /\ log' = log \o r.log \o (IF r.raised THEN <<"ERROR critical error">> ELSE <<>>)
    /\ escaped' = IF r.raised THEN escaped \cup {op} ELSE escaped
    /\ trace' = Append(trace, [op |-> op, ok |-> ok /\ ~r.raised])
    /\ pc' = IF r.raised \/ ~ok THEN "finally" ELSE next

GetRepoUrl ==
    /\ pc = "get_url"
    /\ LET r == get_repo_url_from_env(environ)
       IN /\ repo_url_str' = r.ret
          /\ log' = <<"INFO deployment started">> \o r.log
          /\ trace' = Append(trace, [op |-> "get_repo_url_from_env", ok |-> Truthy(r.ret)])
          /\ pc' = IF Truthy(r.ret) THEN "mkdtemp" ELSE "finally"
    /\ UNCHANGED <<environ, paths_to_clean, fs, locked, extract_listing, root_listing,
                   scan_ok, zip_url, zip_file_path, library_root_path,
                   library_name_for_import, escaped, rmtree_calls>>

\* tempfile.mkdtemp and the two mkdir calls; any of them may raise OSError,
\* which main's catch-all logs.
MakeWorkArea ==
    /\ pc = "mkdtemp"
    /\ \E outcome \in {"ok", "mkdtemp_raises", "mkdir_download_raises",
                        "mkdir_extracted_raises"} :
        /\ fs' = CASE outcome = "ok" ->
                        fs \cup {temp_base_dir, temp_download_dir, temp_extract_dir}
                   [] outcome = "mkdir_extracted_raises" ->
                        fs \cup {temp_base_dir, temp_download_dir}
                   [] outcome = "mkdir_download_raises" -> fs \cup {temp_base_dir}
                   [] OTHER -> fs
        /\ paths_to_clean' = IF outcome = "mkdtemp_raises" THEN paths_to_clean
                             ELSE Append(paths_to_clean, temp_base_dir)
        /\ log' = log \o (IF outcome = "mkdtemp_raises" THEN <<>>
                          ELSE <<"INFO temp dir created">>)
                      \o (IF outcome = "ok" THEN <<>> ELSE <<"ERROR critical error">>)
        /\ escaped' = IF outcome = "ok" THEN escaped
                      ELSE escaped \cup {IF outcome = "mkdtemp_raises" THEN "mkdtemp" ELSE "mkdir"}
        /\ pc' = IF outcome = "ok" THEN "download" ELSE "finally"
    /\ UNCHANGED <<environ, repo_url_str, locked, extract_listing, root_listing, scan_ok,
                   zip_url, zip_file_path, library_root_path, library_name_for_import,
                   trace, rmtree_calls>>

DownloadRepoZip ==
    /\ pc = "download"
    /\ \E outcome \in {"ok", "http_error", "write_error"} :
        LET r == download_repo_zip(repo_url_str.val, temp_download_dir, outcome)
        IN /\ zip_url' = r.url
           /\ zip_file_path' = r.ret
           /\ fs' = fs \cup r.created
           /\ Call("download_repo_zip", r, r.ret # NoPath, "extract")
    /\ UNCHANGED <<environ, repo_url_str, paths_to_clean, locked, extract_listing,
                   root_listing, scan_ok, library_root_path, library_name_for_import,
                   rmtree_calls>>

ExtractRepoZip ==
    /\ pc = "extract"
    /\ \E outcome \in {"ok", "bad_archive"}, listing \in ExtractListings :
        LET r == extract_repo_zip(zip_file_path, temp_extract_dir, outcome)
        IN /\ outcome = "bad_archive" => listing = <<>>
           /\ extract_listing' = listing
           /\ fs' = fs \cup {temp_extract_dir \o <<listing[i].name>> : i \in 1..Len(listing)}
           /\ Call("extract_repo_zip", r, r.ret # NoPath, "find_root")
    /\ UNCHANGED <<environ, repo_url_str, paths_to_clean, locked, root_listing, scan_ok,
                   zip_url, zip_file_path, library_root_path, library_name_for_import,
                   rmtree_calls>>

FindLibraryRoot ==
    /\ pc = "find_root"
    /\ \E ok \in BOOLEAN :
        LET r == find_library_root(temp_extract_dir, extract_listing, ok)
        IN /\ scan_ok' = ok
           /\ library_root_path' = r.ret
           /\ Call("find_library_root", r, r.ret # NoPath, "guess")
    /\ UNCHANGED <<environ, repo_url_str, paths_to_clean, fs, locked, extract_listing,
                   root_listing, zip_url, zip_file_path, library_name_for_import,
                   rmtree_calls>>

GuessPackageName ==
    /\ pc = "guess"
    /\ \E ok \in BOOLEAN, listing \in RootListings :
        LET r == guess_package_name(library_root_path, listing, ok)
        IN /\ scan_ok' = ok
           /\ root_listing' = listing
           /\ library_name_for_import' = r.ret
           /\ Call("guess_package_name", r, r.ret \notin {NoName, ""}, "venv")
    /\ UNCHANGED <<environ, repo_url_str, paths_to_clean, fs, locked, extract_listing,
                   zip_url, zip_file_path, library_root_path, rmtree_calls>>

CreateVirtualEnv ==
    /\ pc = "venv"
    /\ \E outcome \in {"ok", "nonzero", "raises"} :
        LET r == create_virtual_env(venv_dir_path, outcome)
        IN /\ fs' = fs \cup r.created
           /\ Call("create_virtual_env", r, r.ret, "install")
    /\ UNCHANGED <<environ, repo_url_str, paths_to_clean, locked, extract_listing,
                   root_listing, scan_ok, zip_url, zip_file_path, library_root_path,
                   library_name_for_import, rmtree_calls>>

InstallLibrary ==
    /\ pc = "install"
    /\ \E outcome \in {"ok", "nonzero", "raises"} :
        LET r == install_library_in_venv(venv_dir_path, library_root_path, outcome)
        IN Call("install_library_in_venv", r, r.ret, "demo")
    /\ UNCHANGED <<environ, repo_url_str, paths_to_clean, fs, locked, extract_listing,
                   root_listing, scan_ok, zip_url, zip_file_path, library_root_path,
                   library_name_for_import, rmtree_calls>>

\* run_demonstration returns nothing; main goes on to log the success record.
RunDemonstration ==
    /\ pc = "demo"
    /\ \E outcome \in {"ok", "stderr", "spawn_error", "write_error"}, unlink_ok \in BOOLEAN :
        LET r == run_demonstration(venv_dir_path, library_name_for_import, outcome, unlink_ok)
        IN /\ outcome = "write_error" => unlink_ok
           /\ fs' = fs \cup r.left
           /\ log' = log \o <<"INFO trying demonstration">> \o r.log
                         \o (IF r.raised THEN <<"ERROR critical error">>
                             ELSE <<"INFO process finished successfully">>)
           /\ escaped' = IF r.raised THEN escaped \cup {"run_demonstration"} ELSE escaped
           /\ trace' = Append(trace, [op |-> "run_demonstration", ok |-> ~r.raised])
           /\ pc' = "finally"
    /\ UNCHANGED <<environ, repo_url_str, paths_to_clean, locked, extract_listing,
                   root_listing, scan_ok, zip_url, zip_file_path, library_root_path,
                   library_name_for_import, rmtree_calls>>

\* Variant: cleanup at the end of the try block instead of in a finally
\* clause, so that a caught exception skips it.
FinallyAfterTry ==
    /\ pc = "finally"
    /\ \E lk \in {{}} \cup {{p} : p \in fs \cap {temp_base_dir, venv_dir_path}} :
        LET r == IF escaped = {} THEN cleanup(paths_to_clean, fs, lk)
                 ELSE [fs |-> fs, calls |-> <<>>, log |-> <<>>, raised |-> FALSE]
        IN /\ locked' = lk
           /\ fs' = r.fs
           /\ rmtree_calls' = rmtree_calls \o r.calls
           /\ log' = log \o r.log
           /\ trace' = IF escaped = {} THEN Append(trace, [op |-> "cleanup", ok |-> TRUE])
                       ELSE trace
           /\ escaped' = escaped
           /\ pc' = "done"
    /\ UNCHANGED <<environ, repo_url_str, paths_to_clean, extract_listing, root_listing,
                   scan_ok, zip_url, zip_file_path, library_root_path,
                   library_name_for_import>>

\* The finally clause of main: cleanup(paths_to_clean).  The environment
\* decides here whether the removal of the work area's root or of the
\* environment directory is refused.
Finally ==
    /\ pc = "finally"
    /\ \E lk \in {{}} \cup {{p} : p \in fs \cap {temp_base_dir, venv_dir_path}} :
        LET r == cleanup(paths_to_clean, fs, lk)
        IN /\ locked' = lk
           /\ fs' = r.fs
           /\ rmtree_calls' = rmtree_calls \o r.calls
           /\ log' = log \o <<"INFO cleanup started">> \o r.log \o <<"INFO cleanup finished">>
           /\ trace' = Append(trace, [op |-> "cleanup", ok |-> ~r.raised])
           /\ escaped' = IF r.raised THEN escaped \cup {"cleanup"} ELSE escaped
           /\ pc' = "done"
    /\ UNCHANGED <<environ, repo_url_str, paths_to_clean, extract_listing, root_listing,
                   scan_ok, zip_url, zip_file_path, library_root_path,
                   library_name_for_import>>

Next ==
    \/ GetRepoUrl
    \/ MakeWorkArea
    \/ DownloadRepoZip
    \/ ExtractRepoZip
    \/ FindLibraryRoot
    \/ GuessPackageName
    \/ CreateVirtualEnv
    \/ InstallLibrary
    \/ RunDemonstration
    \/ Finally

Spec == Init /\ [][Next]_vars

\* main is one sequential thread: every call it makes returns, so the step
\* that is enabled is eventually taken.
FairSpec == Spec /\ WF_vars(Next)

(***************************************************************************)
(* cleanup called on its own, as test_cleanup does: on a list of paths     *)
(* some of which exist, some of which cannot be removed, and then a second *)
(* time on the same list.                                                  *)
(***************************************************************************)
CleanupPaths == {<<"p">>, <<"p", "x">>, <<"q">>}

\* A directory exists with every entry below it.
ParentsExist(files) ==
    \A f \in files : Len(f) > 1 => SubSeq(f, 1, Len(f) - 1) \in files

InitCleanup ==
    /\ environ = [url |-> NoneV, branch |-> NoneV]
    /\ pc = "cleanup_call"
    /\ repo_url_str = NoneV
    /\ paths_to_clean \in SeqsUpTo(CleanupPaths, MaxPaths)
    /\ fs \in {files \in SUBSET CleanupPaths : ParentsExist(files)}
    /\ locked \in SUBSET fs
    /\ extract_listing = <<>>
    /\ root_listing = <<>>
    /\ scan_ok = TRUE
    /\ zip_url = NoneV
    /\ zip_file_path = NoPath
    /\ library_root_path = NoPath
    /\ library_name_for_import = NoName
    /\ log = <<>>
    /\ trace = <<>>
    /\ escaped = {}
    /\ rmtree_calls = <<>>

CallCleanup ==
    /\ pc \in {"cleanup_call", "cleanup_again"}
    /\ LET r == cleanup(paths_to_clean, fs, locked)
       IN /\ fs' = r.fs
          /\ rmtree_calls' = rmtree_calls \o r.calls
          /\ log' = log \o r.log
          /\ trace' = Append(trace, [op |-> "cleanup", ok |-> ~r.raised])
          /\ escaped' = IF r.raised THEN escaped \cup {"cleanup"} ELSE escaped
    /\ pc' = IF pc = "cleanup_call" THEN "cleanup_again" ELSE "cleanup_done"
    /\ UNCHANGED <<environ, repo_url_str, paths_to_clean, locked, extract_listing,
                   root_listing, scan_ok, zip_url, zip_file_path, library_root_path,
                   library_name_for_import>>

NextCleanup == CallCleanup

SpecCleanup == InitCleanup /\ [][NextCleanup]_vars

(***************************************************************************)
(* Vocabulary of the properties.                                           *)
(***************************************************************************)
Called(op) == \E i \in 1..Len(trace) : trace[i].op = op
Succeeded(op) == \E i \in 1..Len(trace) : trace[i].op = op /\ trace[i].ok
LastCall == trace[Len(trace)]
Logged(record) == \E i \in 1..Len(log) : log[i] = record

StepOrder ==
    <<"download_repo_zip", "extract_repo_zip", "find_library_root", "guess_package_name",
      "create_virtual_env", "install_library_in_venv", "run_demonstration">>
IsStep(op) == \E k \in 1..Len(StepOrder) : StepOrder[k] = op
Steps == SelectSeq(trace, LAMBDA t : IsStep(t.op))

ComponentOps ==
    {"download_repo_zip", "extract_repo_zip", "find_library_root", "guess_package_name",
     "create_virtual_env", "install_library_in_venv", "run_demonstration", "cleanup"}

InWorkArea(q) == IsPrefix(temp_base_dir, q)
TopLevelDirs == {i \in 1..Len(extract_listing) : extract_listing[i].is_dir}
Qualifying == {i \in 1..Len(root_listing) : root_listing[i].marker}

\* C1: on every run of main, whatever the outcome of each step (missing
\* configuration, a sentinel result, an exception), cleanup is eventually
\* invoked, exactly once, and it is the last operation of the run.
C1_CleanupAlwaysRuns ==
    /\ <>Called("cleanup")
    /\ [](Called("cleanup") =>
            /\ LastCall.op = "cleanup"
            /\ Cardinality({i \in 1..Len(trace) : trace[i].op = "cleanup"}) = 1)

C1_Witness ==
    /\ pc = "done"
    /\ escaped # {}
    /\ LastCall.op = "cleanup"

\* C2: the steps run only in the order download, extract, locate root, guess
\* package name, provision, install, demonstrate; a step runs only if every
\* earlier step returned success; after the first failed step only cleanup
\* runs; and when the extracted tree does not have exactly one top-level
\* directory no environment is provisioned and nothing is installed.
C2_StepsInOrderAndShortCircuit ==
    /\ Len(Steps) <= Len(StepOrder)
    /\ \A i \in 1..Len(Steps) : Steps[i].op = StepOrder[i]
    /\ \A i, j \in 1..Len(Steps) : i < j => Steps[i].ok
    /\ \A i, j \in 1..Len(trace) :
         (i < j /\ IsStep(trace[i].op) /\ ~trace[i].ok) => trace[j].op = "cleanup"
    /\ (Succeeded("extract_repo_zip") /\ Cardinality(TopLevelDirs) # 1) =>
         /\ ~Called("create_virtual_env")
         /\ ~Called("install_library_in_venv")
         /\ venv_dir_path \notin fs

C2_Witness ==
    /\ pc = "done"
    /\ Called("find_library_root")
    /\ ~Succeeded("find_library_root")
    /\ Cardinality(TopLevelDirs) = 2
    /\ scan_ok

\* C3 (as stated): when the run has finished, nothing of the work area
\* created by that run exists any more.
C3_WorkAreaGone == pc = "done" => \A q \in fs : ~InWorkArea(q)

\* C3 (amended): when the run has finished, cleanup has called the
\* recursive removal on the work area the run created, and whatever of the
\* work area still exists is an entry whose removal was refused or a
\* directory above such an entry; with no removal refused nothing is left.
C3_WorkAreaGoneUnlessRefused ==
    pc = "done" =>
        /\ (Succeeded("get_repo_url_from_env") /\ "mkdtemp" \notin escaped)
              => rmtree_calls = <<temp_base_dir>>
        /\ \A q \in fs : InWorkArea(q) => \E l \in locked : IsPrefix(q, l)

C3_Witness ==
    /\ pc = "done"
    /\ locked = {venv_dir_path}
    /\ fs = {temp_base_dir, venv_dir_path}

\* C4: a failure inside the demonstration step never changes the outcome:
\* whenever install succeeded, the finished run has logged the final success
\* record and no critical error.
C4_DemonstrationNeverChangesOutcome ==
    (pc = "done" /\ Succeeded("install_library_in_venv")) =>
        /\ Logged("INFO process finished successfully")
        /\ ~Logged("ERROR critical error")

\* C5: when the reference variable is absent, empty or only whitespace,
\* get_repo_url_from_env returns None and logs an error, and the pipeline
\* creates no work area and fetches nothing; otherwise it returns the value
\* with the surrounding whitespace removed.
Blank(o) == ~o.some \/ \A i \in 1..Len(o.val) : o.val[i] = " "
C5_BlankReferenceIsMissingConfiguration ==
    pc # "get_url" =>
        IF Blank(environ.url)
        THEN /\ repo_url_str = NoneV
             /\ Logged("ERROR env var not set")
             /\ fs = {}
             /\ paths_to_clean = <<>>
             /\ ~zip_url.some
             /\ Len(Steps) = 0
        ELSE repo_url_str = Some(strip(environ.url.val))

\* C6: no component operation lets an exception reach main.
C6_NoComponentErrorEscapes == escaped \cap ComponentOps = {}

\* C7: find_library_root returns the subdirectory when the listed directory
\* holds exactly one immediate subdirectory, whatever plain files are beside
\* it, and returns None when it holds zero or two or more.
C7_FindLibraryRoot ==
    (Len(trace) > 0 /\ LastCall.op = "find_library_root" /\ scan_ok) =>
        /\ Cardinality(TopLevelDirs) = 1 =>
              \E i \in TopLevelDirs :
                  library_root_path = temp_extract_dir \o <<extract_listing[i].name>>
        /\ Cardinality(TopLevelDirs) # 1 => library_root_path = NoPath
        /\ LastCall.ok = (Cardinality(TopLevelDirs) = 1)

C7_Witness ==
    /\ Len(trace) > 0
    /\ LastCall.op = "find_library_root"
    /\ scan_ok
    /\ Len(extract_listing) = 3
    /\ ~extract_listing[1].is_dir
    /\ extract_listing[2].is_dir
    /\ ~extract_listing[3].is_dir
    /\ library_root_path = temp_extract_dir \o <<extract_listing[2].name>>

\* C8: guess_package_name never fails: it returns the name of the first
\* child, in iteration order, that holds a package marker; when no child
\* qualifies or the listing of the root fails (the scan raises) it returns
\* the root's own name; it never returns None or an empty name.
C8_GuessPackageName ==
    (Len(trace) > 0 /\ LastCall.op = "guess_package_name") =>
        /\ "guess_package_name" \notin escaped
        /\ library_name_for_import \notin {NoName, ""}
        /\ LastCall.ok
        /\ (scan_ok /\ Qualifying # {}) =>
              \E i \in Qualifying :
                  /\ \A j \in Qualifying : i <= j
                  /\ library_name_for_import = root_listing[i].name
        /\ (~scan_ok \/ Qualifying = {}) =>
              library_name_for_import = library_root_path[Len(library_root_path)]

C8_Witness ==
    /\ Len(trace) > 0
    /\ LastCall.op = "guess_package_name"
    /\ scan_ok
    /\ Len(root_listing) = 2
    /\ ~root_listing[1].marker
    /\ root_listing[2].marker
    /\ library_name_for_import = root_listing[2].name

\* C9: cleanup calls the removal on every listed path, in order, and returns
\* normally; a path that does not exist or whose removal is refused does not
\* keep any other listed path from being removed; a second call on the same
\* list leaves the file system as the first call left it and raises nothing.
C9_CleanupEveryPathAndIdempotent ==
    /\ [](pc \in {"cleanup_again", "cleanup_done"} =>
            /\ escaped = {}
            /\ rmtree_calls = IF pc = "cleanup_again" THEN paths_to_clean
                              ELSE paths_to_clean \o paths_to_clean
            /\ \A i \in 1..Len(paths_to_clean) : \A q \in fs :
                  IsPrefix(paths_to_clean[i], q) => \E l \in locked : IsPrefix(q, l))
    /\ [][pc = "cleanup_again" => (fs' = fs /\ escaped' = {})]_vars

C9_Witness ==
    /\ pc = "cleanup_done"
    /\ Len(paths_to_clean) = 2
    /\ paths_to_clean[1] \in locked
    /\ paths_to_clean[1] \in fs
    /\ paths_to_clean[2] # paths_to_clean[1]
    /\ paths_to_clean[2] \notin fs
    /\ fs = {paths_to_clean[1]}

\* C10: the archive URL requested by the fetch step is the reference itself
\* when it ends with .zip; otherwise it is the reference without its trailing
\* slash followed by /archive/refs/heads/<branch>.zip, where <branch> is the
\* branch override when one is supplied and main when none is.
C10_ArchiveUrlHonoursBranchOverride ==
    zip_url.some =>
        LET ref == repo_url_str.val
            branch == IF environ.branch.some THEN environ.branch.val ELSE DEFAULT_BRANCH
            cut == rstrip(ref, "/")
        IN zip_url.val = IF endswith(ref, DotZip) THEN ref
                         ELSE cut \o ArchivePrefix \o branch \o DotZip

====
